---- MODULE Spec2Model ----
(***************************************************************************)
(* graphtype: translation of a GraphQL introspection schema into           *)
(* TypeScript definitions (src/lib/typescript.ts) and the command that     *)
(* drives it (src/lib/command.ts).                                          *)
(*                                                                         *)
(* Text is modelled as a sequence of tokens (strings); concatenation of    *)
(* JavaScript strings is \o on token sequences.  A thrown exception is the  *)
(* one-token text <<"!TypeError">> / <<"!Error", msg>>.                     *)
(***************************************************************************)
EXTENDS Integers, Sequences, FiniteSets, TLC

VARIABLES
    schema,       \* the Schema object handed to the translation (mutable)
    scalarAlias,  \* the caller's alias table (name -> expression | undefined)
    given,        \* history: schema.types as the caller first supplied it
    ret,          \* result of the last synchronous entry-point call
    readable,     \* the ReadableFromQueue objects, by identity
    promise,      \* the promise of createPromiseSchemaDefinition
    input,        \* argument of the pure function under check
    output,       \* its result
    proc          \* the process running GraphTypeCommand.action

vars == <<schema, scalarAlias, given, ret, readable, promise, input, output, proc>>

(***************************************************************************)
(* Bounds                                                                  *)
(***************************************************************************)
MaxTypes == 3        \* longest schema.types in the queue specification
MaxStreamTypes == 2  \* longest schema.types in the streaming specification
MaxDepth == 3        \* deepest TypeRef nesting
MaxMembers == 2      \* longest fields / interfaces / possibleTypes list rendered
MaxCalls == 2        \* successive schemaToDefinition calls on one schema object

(***************************************************************************)
(* src/lib/introspection kinds                                             *)
(***************************************************************************)
SCALAR == "SCALAR"
ENUM == "ENUM"
UNION_KIND == "UNION"   \* UNION is a TLA+ keyword
INTERFACE == "INTERFACE"
OBJECT == "OBJECT"
INPUT_OBJECT == "INPUT_OBJECT"
LIST == "LIST"
NON_NULL == "NON_NULL"

\* JavaScript undefined / JSON null as property values
Undefined == "undefined"
Null == "null"

\* the number 0 and the boolean false as property values (the strings '0'
\* and 'false' are other values)
Zero == "number:0"
False == "boolean:false"

\* String(value) of a primitive
ToStr(value) ==
    CASE value = Zero -> "0"
      [] value = False -> "false"
      [] OTHER -> value

(***************************************************************************)
(* Text helpers                                                            *)
(***************************************************************************)
EOL == "<EOL>"
LF == "<LF>"
TAB == "    "

IsErr(text) == Len(text) > 0 /\ text[1] \in {"!TypeError", "!Error"}
TypeError == <<"!TypeError">>

\* a + b on strings, an exception in either operand propagating (each
\* operand is bound once, as a value)
Cat(a, b) ==
    CHOOSE text \in {IF IsErr(x) THEN x ELSE IF IsErr(y) THEN y ELSE x \o y :
                        x \in {a}, y \in {b}} : TRUE

\* Array.prototype.join: the texts of list separated by sep (the elements
\* lo..hi of list, split in halves to keep the evaluation shallow)
RECURSIVE JoinRange(_, _, _, _)
JoinRange(list, sep, lo, hi) ==
    IF lo = hi THEN list[lo]
    ELSE LET mid == (lo + hi) \div 2
         IN  Cat(JoinRange(list, sep, lo, mid),
                 Cat(sep, JoinRange(list, sep, mid + 1, hi)))

\* (the list is bound once, as a value)
Join(list, sep) ==
    CHOOSE text \in {IF Len(l) = 0 THEN <<>> ELSE JoinRange(l, sep, 1, Len(l)) :
                        l \in {list}} : TRUE

\* the positions of a token in a text
Positions(text, tok) == {i \in 1..Len(text) : text[i] = tok}

\* the lines of a text: the token runs between the occurrences of sep
RECURSIVE SplitAt(_, _)
SplitAt(text, sep) ==
    IF Positions(text, sep) = {} THEN <<text>>
    ELSE LET k == CHOOSE i \in Positions(text, sep) :
                      \A j \in Positions(text, sep) : i <= j
         IN  <<SubSeq(text, 1, k - 1)>> \o SplitAt(SubSeq(text, k + 1, Len(text)), sep)

(***************************************************************************)
(* TypeRef: [kind, name, ofType]; ofType is <<>> (null) or <<inner>>.      *)
(***************************************************************************)
RefNames == {"T", "ID"}

Named(n) == [kind |-> SCALAR, name |-> n, ofType |-> <<>>]
ListOf(t) == [kind |-> LIST, name |-> Null, ofType |-> <<t>>]
NonNullOf(t) == [kind |-> NON_NULL, name |-> Null, ofType |-> <<t>>]

RECURSIVE TypeRefs(_)
TypeRefs(d) ==
    IF d = 0 THEN {Named(n) : n \in RefNames}
    ELSE LET inner == TypeRefs(d - 1)
         IN  inner \cup {ListOf(t) : t \in inner} \cup {NonNullOf(t) : t \in inner}

\* refToDefinition with the isNonNull flag dropped on the way into a
\* NON_NULL wrapper (mutation)
RECURSIVE refToDefinitionLosesFlag(_, _)
refToDefinitionLosesFlag(type, isNonNull) ==
    IF type.kind \in {LIST, NON_NULL} /\ type.ofType = <<>> THEN TypeError
    ELSE IF type.kind = LIST
        THEN Cat(<<"List<">>, Cat(refToDefinitionLosesFlag(type.ofType[1], FALSE), <<">">>))
    ELSE IF type.kind = NON_NULL
        THEN Cat(<<"NonNull<">>, Cat(refToDefinitionLosesFlag(type.ofType[1], FALSE), <<">">>))
    ELSE IF isNonNull THEN <<type.name>>
    ELSE <<"Optional<", type.name, ">">>

\* refToDefinition (src/lib/typescript.ts:96-107).  Reading .kind of a
\* missing ofType throws a TypeError.
RECURSIVE refToDefinition(_, _)
refToDefinition(type, isNonNull) ==
    IF type.kind \in {LIST, NON_NULL} /\ type.ofType = <<>> THEN TypeError
    ELSE IF type.kind = LIST
        THEN Cat(<<"List<">>, Cat(refToDefinition(type.ofType[1], FALSE), <<">">>))
    ELSE IF type.kind = NON_NULL
        THEN Cat(<<"NonNull<">>, Cat(refToDefinition(type.ofType[1], TRUE), <<">">>))
    ELSE IF isNonNull THEN <<type.name>>
    ELSE <<"Optional<", type.name, ">">>

(***************************************************************************)
(* Comment Synthesizer                                                     *)
(***************************************************************************)
\* a string as a token, the empty string being no token at all
Tok(str) == IF str = "" THEN <<>> ELSE <<str>>

\* JavaScript truthiness of a string-valued property that may be absent
Prop(obj, key) == IF key \in DOMAIN obj THEN obj[key] ELSE Undefined
\* the truthiness test taken as a test against null and undefined only
\* (mutation)
TruthyNotNullish(value) == value \notin {Undefined, Null}

Truthy(value) == value \notin {Undefined, Null, "", Zero, False}
IsDeprecated(obj) == "isDeprecated" \in DOMAIN obj /\ obj.isDeprecated

beginComment(tab) == Tok(tab) \o <<"/**">>

\* word-wrap at width 80 with indent tab + ' * ': the texts of the model fit
\* one line, so the result is the indent followed by the text
toComment(comment, tab) == Tok(tab) \o <<" * ">> \o Tok(comment)

endComment(tab) == Tok(tab) \o <<" */">>

\* descriptionToComment pushing the description ahead of the deprecation
\* notice and the default (mutation)
descriptionToCommentDescriptionFirst(desc, tab) ==
    IF Truthy(Prop(desc, "defaultValue")) \/ Truthy(Prop(desc, "description"))
          \/ IsDeprecated(desc)
    THEN LET d1 == IF Truthy(Prop(desc, "description"))
                   THEN <<toComment(desc.description, tab)>>
                   ELSE <<>>
             d2 == IF IsDeprecated(desc)
                   THEN d1 \o (IF Len(d1) > 0 THEN <<toComment("", tab)>> ELSE <<>>)
                           \o <<toComment(
                                  IF Truthy(Prop(desc, "deprecationReason"))
                                  THEN "@deprecated " \o desc.deprecationReason
                                  ELSE "@deprecated", tab)>>
                   ELSE d1
             d3 == IF Truthy(Prop(desc, "defaultValue"))
                   THEN d2 \o (IF Len(d2) > 0 THEN <<toComment("", tab)>> ELSE <<>>)
                           \o <<toComment("@default " \o ToStr(desc.defaultValue), tab)>>
                   ELSE d2
         IN  Join(<<beginComment(tab)>> \o d3 \o <<endComment(tab)>>, <<LF>>)
    ELSE <<>>

descriptionToComment(desc, tab) ==
    IF Truthy(Prop(desc, "defaultValue")) \/ Truthy(Prop(desc, "description"))
          \/ IsDeprecated(desc)
    THEN LET d1 == IF IsDeprecated(desc)
                   THEN <<toComment(
                            IF Truthy(Prop(desc, "deprecationReason"))
                            THEN "@deprecated " \o desc.deprecationReason
                            ELSE "@deprecated", tab)>>
                   ELSE <<>>
             d2 == IF Truthy(Prop(desc, "defaultValue"))
                   THEN d1 \o (IF Len(d1) > 0 THEN <<toComment("", tab)>> ELSE <<>>)
                           \o <<toComment("@default " \o ToStr(desc.defaultValue), tab)>>
                   ELSE d1
             d3 == IF Truthy(Prop(desc, "description"))
                   THEN d2 \o (IF Len(d2) > 0 THEN <<toComment("", tab)>> ELSE <<>>)
                           \o <<toComment(desc.description, tab)>>
                   ELSE d2
         IN  Join(<<beginComment(tab)>> \o d3 \o <<endComment(tab)>>, <<LF>>)
    ELSE <<>>

(***************************************************************************)
(* Per-kind renderers                                                      *)
(***************************************************************************)
utilDefinition ==
    Join(<< <<"type NonNull<T> = T;">>, <<"type List<T> = T[];">>,
            <<"type Optional<T> = T | null;">> >>, <<EOL>>)

responseDefinition(responseTypes) ==
    Join(<< <<"export interface Response {">>, <<>>,
            <<TAB, "data: ">> \o Join([i \in 1..Len(responseTypes) |-> Tok(responseTypes[i])], <<" | ">>) \o <<";">>,
            <<>>,
            <<TAB, "errors?: ErrorResponse[];">>, <<"}">>,
            <<>>,
            <<"export interface ErrorResponse {">>, <<>>,
            <<TAB, "locations: ErrorLocation[];">>, <<>>,
            <<TAB, "message: string;">>, <<"}">>,
            <<>>,
            <<"export interface ErrorLocation {">>, <<>>,
            <<TAB, "line: number;">>, <<>>,
            <<TAB, "column: number;">>, <<"}">> >>, <<EOL>>)

\* the leading comment of an entity block never pushed (mutation)
DescriptionLinesNever(type) == <<>>

\* the optional leading comment of an entity block: def.push(comment) when
\* type.description is truthy
DescriptionLines(type) ==
    IF Truthy(Prop(type, "description")) THEN <<descriptionToComment(type, "")>>
    ELSE <<>>

\* scalarToDefinition with the default 'string' replaced by 'any' (mutation)
scalarToDefinitionDefaultAny(type, typescriptAlias) ==
    Join(DescriptionLines(type)
         \o << <<"export type ", type.name, " = ",
                 IF typescriptAlias = Undefined THEN "any" ELSE typescriptAlias,
                 ";">> >>, <<EOL>>)

\* typescriptAlias: string = 'string' applies when the argument is undefined
scalarToDefinition(type, typescriptAlias) ==
    Join(DescriptionLines(type)
         \o << <<"export type ", type.name, " = ",
                 IF typescriptAlias = Undefined THEN "string" ELSE typescriptAlias,
                 ";">> >>, <<EOL>>)

\* assign taken from a NON_NULL wrapper at any depth (mutation)
RECURSIVE AssignAnyNonNull(_)
AssignAnyNonNull(type) ==
    IF type.kind = NON_NULL THEN ": "
    ELSE IF type.ofType = <<>> THEN "?: "
    ELSE AssignAnyNonNull(type.ofType[1])

\* const assign = type.kind === NON_NULL ? ': ' : '?: '
Assign(type) == IF type.kind = NON_NULL THEN ": " ELSE "?: "

fieldToDefinition(field) ==
    Join(<< <<>> >>
         \o (IF Truthy(Prop(field, "description")) \/ IsDeprecated(field)
             THEN <<descriptionToComment(field, TAB)>> ELSE <<>>)
         \o << Cat(<<TAB, field.name, Assign(field.type)>>,
                   Cat(refToDefinition(field.type, FALSE), <<";">>)) >>, <<EOL>>)

fieldsToDefinition(fields) == Join([i \in 1..Len(fields) |-> fieldToDefinition(fields[i])], <<EOL>>)

\* typeToDefinition without the extends clause (mutation)
typeToDefinitionNoExtends(type) ==
    Join(DescriptionLines(type)
         \o << <<"export interface ", type.name, " {">>,
               fieldsToDefinition(type.fields), <<"}">> >>, <<EOL>>)

typeToDefinition(type) ==
    LET impl == IF Len(type.interfaces) > 0
                THEN <<" extends ">>
                     \o Join([i \in 1..Len(type.interfaces) |->
                                 <<type.interfaces[i].name>>], <<", ">>)
                ELSE <<>>
    IN  Join(DescriptionLines(type)
             \o << <<"export interface ", type.name>> \o impl \o <<" {">>,
                   fieldsToDefinition(type.fields), <<"}">> >>, <<EOL>>)

interfaceToDefinition(type) ==
    Join(DescriptionLines(type)
         \o << <<"export interface ", type.name, " {">>,
               fieldsToDefinition(type.fields), <<"}">> >>, <<EOL>>)

inputValueToDefinition(arg) ==
    Join(<< <<>> >>
         \o (IF Truthy(Prop(arg, "description"))
             THEN <<descriptionToComment(arg, TAB)>> ELSE <<>>)
         \o << Cat(<<TAB, arg.name, Assign(arg.type)>>,
                   Cat(refToDefinition(arg.type, FALSE), <<";">>)) >>, <<EOL>>)

inputValuesToDefinition(args) == Join([i \in 1..Len(args) |-> inputValueToDefinition(args[i])], <<EOL>>)

inputToDefinition(type) ==
    Join(DescriptionLines(type)
         \o << <<"export interface ", type.name, " {">>,
               inputValuesToDefinition(type.inputFields), <<"}">> >>, <<EOL>>)

\* unionToDefinition listing the member types last to first (mutation)
unionToDefinitionReversed(type) ==
    Join(DescriptionLines(type)
         \o << <<"export type ", type.name, " = ">>
               \o Join([i \in 1..Len(type.possibleTypes) |->
                           <<type.possibleTypes[Len(type.possibleTypes) + 1 - i].name>>],
                       <<" | ">>)
               \o <<";">> >>, <<EOL>>)

unionToDefinition(type) ==
    Join(DescriptionLines(type)
         \o << <<"export type ", type.name, " = ">>
               \o Join([i \in 1..Len(type.possibleTypes) |->
                           <<type.possibleTypes[i].name>>], <<" | ">>)
               \o <<";">> >>, <<EOL>>)

enumValueToDefinition(value) ==
    Join(<< <<>> >>
         \o (IF Truthy(Prop(value, "description"))
             THEN <<descriptionToComment(value, TAB)>> ELSE <<>>)
         \o << <<TAB, "\"", value.name, "\"">> >>, <<EOL>>)

enumValuesToDefinition(vals) == Join([i \in 1..Len(vals) |-> enumValueToDefinition(vals[i])], <<" |", EOL>>)

enumToDefinition(type) ==
    Join(DescriptionLines(type)
         \o << <<"export type ", type.name, " = (">>,
               enumValuesToDefinition(type.enumValues), <<");">> >>, <<EOL>>)

(***************************************************************************)
(* Schema Orderer: TypeOrder, the sort comparator, Array.prototype.sort    *)
(***************************************************************************)
Kinds == {SCALAR, ENUM, UNION_KIND, INTERFACE, OBJECT, INPUT_OBJECT}

\* enum TypeOrder: the numeric value of each member
TypeOrder(kind) ==
    CASE kind = SCALAR -> 0
      [] kind = ENUM -> 1
      [] kind = UNION_KIND -> 2
      [] kind = INTERFACE -> 3
      [] kind = OBJECT -> 4
      [] kind = INPUT_OBJECT -> 5

\* The names of the model in the order String.prototype.localeCompare gives
\* them: letters before their successors, lower case before upper case
\* ("A" < "b" < "B" < "Int"; code-unit order would put "b" last).
LocaleOrder == <<"A", "b", "B", "Int">>
Names == {LocaleOrder[i] : i \in 1..Len(LocaleOrder)}
Rank(name) == CHOOSE i \in 1..Len(LocaleOrder) : LocaleOrder[i] = name

localeCompare(a, b) ==
    IF Rank(a) < Rank(b) THEN -1 ELSE IF Rank(a) > Rank(b) THEN 1 ELSE 0

\* the comparator with the name tie-break missing (mutation)
compareKindOnly(typeA, typeB) ==
    IF typeA.kind \notin Kinds \/ typeB.kind \notin Kinds THEN 0
    ELSE TypeOrder(typeA.kind) - TypeOrder(typeB.kind)

\* the comparator handed to sort; TypeOrder[kind] of an unknown kind is
\* undefined, the difference NaN, which sort reads as +0
compare(typeA, typeB) ==
    IF typeA.kind = typeB.kind THEN localeCompare(typeA.name, typeB.name)
    ELSE IF typeA.kind \notin Kinds \/ typeB.kind \notin Kinds THEN 0
    ELSE TypeOrder(typeA.kind) - TypeOrder(typeB.kind)

\* the insertion moving an element ahead of the elements it compares equal
\* to: an unstable sort (mutation)
RECURSIVE InsertSortedUnstable(_, _)
InsertSortedUnstable(sorted, x) ==
    IF Len(sorted) = 0 THEN <<x>>
    ELSE IF compare(sorted[Len(sorted)], x) >= 0
        THEN Append(InsertSortedUnstable(SubSeq(sorted, 1, Len(sorted) - 1), x),
                    sorted[Len(sorted)])
    ELSE Append(sorted, x)

\* Array.prototype.sort on a short array: insertion sort, stable
RECURSIVE InsertSorted(_, _)
InsertSorted(sorted, x) ==
    IF Len(sorted) = 0 THEN <<x>>
    ELSE IF compare(sorted[Len(sorted)], x) > 0
        THEN Append(InsertSorted(SubSeq(sorted, 1, Len(sorted) - 1), x),
                    sorted[Len(sorted)])
    ELSE Append(sorted, x)

RECURSIVE SortTypes(_)
SortTypes(types) ==
    IF Len(types) = 0 THEN <<>>
    ELSE InsertSorted(SortTypes(SubSeq(types, 1, Len(types) - 1)), types[Len(types)])

(***************************************************************************)
(* Scalar alias tables: total maps from AliasKeys to an expression or      *)
(* Undefined (what a property read of a missing key gives).                 *)
(***************************************************************************)
BuiltinNames == {"Boolean", "Int", "Float", "String"}
AliasKeys == Names \cup BuiltinNames

EmptyAlias == [n \in AliasKeys |-> Undefined]

StandardAlias ==
    [n \in AliasKeys |->
        CASE n = "Boolean" -> "boolean"
          [] n = "Int" -> "number"
          [] n = "Float" -> "number"
          [] n = "String" -> "string"
          [] OTHER -> Undefined]

\* Object.assign(target, source): every own property of source is written
\* over target's
ObjectAssign(target, source) ==
    [n \in AliasKeys |-> IF source[n] # Undefined THEN source[n] ELSE target[n]]

\* Object.assign({}, scalarAlias, {Boolean: .., Int: .., Float: .., String: ..})
EffectiveAlias(alias) ==
    ObjectAssign(ObjectAssign(EmptyAlias, alias), StandardAlias)

\* the merge written into the caller's table: Object.assign(scalarAlias,
\* {..}) (mutation)
MergeAliasInPlace(alias) ==
    [effective |-> ObjectAssign(alias, StandardAlias),
     caller |-> ObjectAssign(alias, StandardAlias)]

\* scalarAlias = Object.assign({}, ...): the target is a fresh object and
\* only the parameter is rebound.  effective is the table the closures
\* capture, caller the caller's table after the statement.
MergeAlias(alias) == [effective |-> EffectiveAlias(alias), caller |-> alias]

(***************************************************************************)
(* createSchemaDefinitionQueue: the work list of closures.  A unit holds   *)
(* the renderer it calls and what its closure captured.                     *)
(***************************************************************************)
\* the null alternative pushed ahead of the root names (mutation)
ResponseTypesNullFirst(sch) ==
    <<"null">>
    \o (IF Len(sch.queryType) > 0 THEN <<sch.queryType[1].name>> ELSE <<>>)
    \o (IF Len(sch.mutationType) > 0 THEN <<sch.mutationType[1].name>> ELSE <<>>)
    \o (IF Len(sch.subscriptionType) > 0 THEN <<sch.subscriptionType[1].name>> ELSE <<>>)

\* responseTypes: the names of the roots present, then 'null'
ResponseTypes(sch) ==
    (IF Len(sch.queryType) > 0 THEN <<sch.queryType[1].name>> ELSE <<>>)
    \o (IF Len(sch.mutationType) > 0 THEN <<sch.mutationType[1].name>> ELSE <<>>)
    \o (IF Len(sch.subscriptionType) > 0 THEN <<sch.subscriptionType[1].name>> ELSE <<>>)
    \o <<"null">>

Unit(task, type, responseTypes, alias) ==
    [task |-> task, type |-> type, responseTypes |-> responseTypes,
     scalarAlias |-> alias]

Renderer(kind) ==
    CASE kind = SCALAR -> "scalarToDefinition"
      [] kind = ENUM -> "enumToDefinition"
      [] kind = UNION_KIND -> "unionToDefinition"
      [] kind = INTERFACE -> "interfaceToDefinition"
      [] kind = OBJECT -> "typeToDefinition"
      [] kind = INPUT_OBJECT -> "inputToDefinition"

\* the forEach leaving after the first type it pushed (mutation)
PushTypesFirstOnly(schemaDef, types, responseTypes, alias) ==
    IF Len(types) = 0 THEN [queue |-> schemaDef, error |-> <<>>]
    ELSE [queue |-> Append(schemaDef,
                           Unit("scalarToDefinition", <<Head(types)>>,
                                responseTypes, alias)),
          error |-> <<>>]

\* the forEach passing over a type of unknown kind without a push
\* (mutation)
RECURSIVE PushTypesSkipUnknown(_, _, _, _)
PushTypesSkipUnknown(schemaDef, types, responseTypes, alias) ==
    IF Len(types) = 0 THEN [queue |-> schemaDef, error |-> <<>>]
    ELSE IF Head(types).kind \notin Kinds
        THEN PushTypesSkipUnknown(schemaDef, Tail(types), responseTypes, alias)
    ELSE PushTypesSkipUnknown(Append(schemaDef,
                                     Unit(Renderer(Head(types).kind), <<Head(types)>>,
                                          responseTypes, alias)),
                              Tail(types), responseTypes, alias)

\* the forEach over the sorted types: one push per type, a throw at the
\* first type of unknown kind
RECURSIVE PushTypes(_, _, _, _)
PushTypes(schemaDef, types, responseTypes, alias) ==
    IF Len(types) = 0 THEN [queue |-> schemaDef, error |-> <<>>]
    ELSE IF Head(types).kind \notin Kinds
        THEN [queue |-> schemaDef,
              error |-> <<"!Error", "Unexpected type: ", Head(types).kind>>]
    ELSE PushTypes(Append(schemaDef,
                          Unit(Renderer(Head(types).kind), <<Head(types)>>,
                               responseTypes, alias)),
                   Tail(types), responseTypes, alias)

\* createSchemaDefinitionQueue taking an absent payload, or one without its
\* type list, for a schema without entities (mutation)
createSchemaDefinitionQueueAnyPayload(sch, alias) ==
    CHOOSE result \in
        {LET pushed == PushTypes(
                 <<Unit("utilDefinition", <<>>, responseTypes, merged.effective),
                   Unit("responseDefinition", <<>>, responseTypes, merged.effective)>>,
                 sorted, responseTypes, merged.effective)
         IN  [queue |-> pushed.queue, error |-> pushed.error, types |-> sorted,
              alias |-> merged.caller] :
            merged \in {MergeAlias(alias)},
            responseTypes \in {ResponseTypes(sch)},
            sorted \in {SortTypes(sch.types)}} : TRUE

\* Result: the queue returned (or the error thrown), schema.types as the
\* in-place sort leaves it and the caller's alias table after the call.
\* With schema undefined, reading schema.queryType throws a TypeError; with
\* schema.types missing, schema.types.sort does.
createSchemaDefinitionQueue(sch, alias) ==
    CHOOSE result \in
        {IF sch.shape # "schema"
         THEN [queue |-> <<>>, error |-> TypeError, types |-> sch.types,
               alias |-> merged.caller]
         ELSE LET pushed == PushTypes(
                      <<Unit("utilDefinition", <<>>, responseTypes, merged.effective),
                        Unit("responseDefinition", <<>>, responseTypes,
                             merged.effective)>>,
                      sorted, responseTypes, merged.effective)
              IN  [queue |-> pushed.queue, error |-> pushed.error, types |-> sorted,
                   alias |-> merged.caller] :
            merged \in {MergeAlias(alias)},
            responseTypes \in {ResponseTypes(sch)},
            sorted \in {SortTypes(sch.types)}} : TRUE

\* task(): the closure of a unit run
RunTask(unit) ==
    CASE unit.task = "utilDefinition" -> utilDefinition
      [] unit.task = "responseDefinition" -> responseDefinition(unit.responseTypes)
      [] unit.task = "scalarToDefinition" ->
            scalarToDefinition(unit.type[1], unit.scalarAlias[unit.type[1].name])
      [] unit.task = "enumToDefinition" -> enumToDefinition(unit.type[1])
      [] unit.task = "unionToDefinition" -> unionToDefinition(unit.type[1])
      [] unit.task = "interfaceToDefinition" -> interfaceToDefinition(unit.type[1])
      [] unit.task = "typeToDefinition" -> typeToDefinition(unit.type[1])
      [] unit.task = "inputToDefinition" -> inputToDefinition(unit.type[1])

\* schemaToDefinition: queue.map(task => task()).join(EOL + EOL) + EOL + EOL
schemaToDefinitionText(queue) ==
    Cat(Join([i \in 1..Len(queue) |-> RunTask(queue[i])], <<EOL, EOL>>), <<EOL, EOL>>)

(***************************************************************************)
(* Inputs: schema entities, schemas and caller alias tables                *)
(***************************************************************************)
Type(kind, name, description) ==
    [kind |-> kind, name |-> name, description |-> description,
     fields |-> <<>>, inputFields |-> <<>>, interfaces |-> <<>>,
     enumValues |-> <<>>, possibleTypes |-> <<>>]

Field(name, type) ==
    [name |-> name, description |-> Null, isDeprecated |-> FALSE,
     deprecationReason |-> Null, args |-> <<>>, type |-> type]

InputValue(name, type, defaultValue) ==
    [name |-> name, description |-> Null, defaultValue |-> defaultValue,
     type |-> type]

EnumValue(name) ==
    [name |-> name, description |-> Null, isDeprecated |-> FALSE,
     deprecationReason |-> Null]

ScalarInt == Type(SCALAR, "Int", Null)
ScalarA == Type(SCALAR, "A", Null)
ScalarADoc == Type(SCALAR, "A", "doc")
EnumB == [Type(ENUM, "B", Null) EXCEPT !.enumValues = <<EnumValue("X"), EnumValue("Y")>>]
UnionA == [Type(UNION_KIND, "A", Null) EXCEPT !.possibleTypes = <<Named("B"), Named("b")>>]
InterfaceA == [Type(INTERFACE, "A", "doc") EXCEPT
                  !.fields = <<Field("id", NonNullOf(Named("ID")))>>]
ObjectB == [Type(OBJECT, "B", Null) EXCEPT
               !.fields = <<Field("id", NonNullOf(Named("ID"))),
                            Field("friends", ListOf(NonNullOf(Named("ID"))))>>,
               !.interfaces = <<Named("A")>>]
ObjectLowerB == Type(OBJECT, "b", Null)
InputA == [Type(INPUT_OBJECT, "A", Null) EXCEPT
              !.inputFields = <<InputValue("name", Named("T"), Null)>>]
\* an entity whose kind no renderer knows
UnknownA == Type("DIRECTIVE", "A", Null)

QueuePool == {ScalarInt, ScalarA, ScalarADoc, EnumB, UnionA, InterfaceA,
              ObjectB, ObjectLowerB, InputA}
StreamPool == {ScalarInt, ScalarADoc, ObjectB, EnumB, UnknownA}

\* the sequences of distinct elements of S of length <= n
SeqsOver(S, n) ==
    UNION {{q \in [1..k -> S] : \A i, j \in 1..k : i # j => q[i] # q[j]} : k \in 0..n}

Root(name) == <<[name |-> name]>>

Schemas(pool, n, roots) ==
    {[shape |-> "schema", types |-> t, queryType |-> r[1], mutationType |-> r[2],
      subscriptionType |-> r[3]] : t \in SeqsOver(pool, n), r \in roots}

QueueRoots == {<<<<>>, <<>>, <<>>>>, <<Root("B"), <<>>, Root("b")>>}
StreamRoots == {<<Root("B"), <<>>, <<>>>>}

AliasTables ==
    {EmptyAlias,
     [EmptyAlias EXCEPT !["Int"] = "bigint"],
     [EmptyAlias EXCEPT !["Int"] = "bigint", !["A"] = "Date"]}
StreamAliasTables == {EmptyAlias, [EmptyAlias EXCEPT !["A"] = "Date"]}

(***************************************************************************)
(* State                                                                   *)
(***************************************************************************)
Streams == {"r1", "r2"}

NoRet == [fn |-> "none", queue |-> <<>>, text |-> <<>>]
\* error is what a task threw inside _read, delivery what the stream
\* machinery made of it
NoStream == [created |-> FALSE, queue |-> <<>>, pushed |-> <<>>, ended |-> 0,
             log |-> <<>>, error |-> <<>>, delivery |-> "none"]
NoPromise == [state |-> "none", queue |-> <<>>, buff |-> <<>>]
NoSchema == [shape |-> "schema", types |-> <<>>, queryType |-> <<>>,
             mutationType |-> <<>>, subscriptionType |-> <<>>]
NoInput == [fn |-> "none"]

\* an entry point left by an exception: nothing returned, the error thrown
Thrown(fn, error) == [fn |-> fn, queue |-> <<>>, text |-> error]
NoOutput == <<"<pending>">>

\* GraphTypeCommand.action has not been called: no sink chosen, nothing
\* written, no exit code
NoProc == [phase |-> "none", sink |-> "none", sinkEnded |-> FALSE,
           written |-> <<>>, exit |-> <<>>]

\* no translation started yet
Fresh ==
    /\ given = schema.types
    /\ ret = NoRet
    /\ readable = [r \in Streams |-> NoStream]
    /\ promise = NoPromise
    /\ proc = NoProc

Idle ==
    /\ schema = NoSchema
    /\ scalarAlias = EmptyAlias
    /\ Fresh

(***************************************************************************)
(* Entry points                                                            *)
(***************************************************************************)
\* createSchemaDefinitionQueue called directly
CallCreateSchemaDefinitionQueue ==
    \E built \in {createSchemaDefinitionQueue(schema, scalarAlias)} :
        /\ schema' = [schema EXCEPT !.types = built.types]
        /\ ret' = [fn |-> "createSchemaDefinitionQueue", queue |-> built.queue,
                   text |-> built.error]
        /\ scalarAlias' = built.alias
        /\ UNCHANGED <<proc, given, readable, promise, input, output>>

\* schemaToDefinition: the eager whole-string mode
CallSchemaToDefinition ==
    \E built \in {createSchemaDefinitionQueue(schema, scalarAlias)} :
        /\ schema' = [schema EXCEPT !.types = built.types]
        /\ ret' = [fn |-> "schemaToDefinition", queue |-> <<>>,
                   text |-> IF Len(built.error) > 0 THEN built.error
                            ELSE schemaToDefinitionText(built.queue)]
        /\ scalarAlias' = built.alias
        /\ UNCHANGED <<proc, given, readable, promise, input, output>>

InitQueue ==
    /\ schema \in Schemas(QueuePool, MaxTypes, QueueRoots)
    /\ scalarAlias \in AliasTables
    /\ Fresh
    /\ input = NoInput
    /\ output = NoOutput

NextQueue == CallCreateSchemaDefinitionQueue \/ CallSchemaToDefinition

SpecQueue == InitQueue /\ [][NextQueue]_vars

(***************************************************************************)
(* The chunked mode: ReadableFromQueue.  A stream holds its queue, the     *)
(* chunks pushed so far, the number of push(null) calls, and log, the      *)
(* values push returned during the latest _read call.                       *)
(***************************************************************************)
\* the chunk with a single line break after the unit's text (mutation)
ChunkSingleEOL(unit) == Cat(RunTask(unit), <<EOL>>)

\* const out = task() + EOL + EOL
Chunk(unit) == Cat(RunTask(unit), <<EOL, EOL>>)

\* isPaused after the pushes logged so far: false at first, then what the
\* latest push returned
IsPaused(log) == Len(log) > 0 /\ log[Len(log)]

\* one turn of the while loop of _read: shift, run the task, push; push
\* returns signals[k] on the k-th push of the call.  A task that throws
\* leaves _read at once: the unit is shifted and nothing is pushed.
LoopBody(stream, signals) ==
    CHOOSE after \in
        {IF IsErr(chunk)
         THEN [stream EXCEPT !.queue = Tail(stream.queue), !.error = chunk]
         ELSE [stream EXCEPT !.queue = Tail(stream.queue),
                             !.pushed = Append(stream.pushed, chunk),
                             !.log = Append(stream.log, signals[Len(stream.log) + 1])] :
            chunk \in {Chunk(Head(stream.queue))}} : TRUE

\* while (!isPaused && this.queue.length > 0); an exception ends the loop
RECURSIVE ReadLoop(_, _)
ReadLoop(stream, signals) ==
    IF ~IsPaused(stream.log) /\ Len(stream.queue) > 0 /\ stream.error = <<>>
    THEN CHOOSE after \in {ReadLoop(s, signals) : s \in {LoopBody(stream, signals)}} : TRUE
    ELSE stream

\* _read signalling the end whenever the loop has stopped (mutation)
readAlwaysEnds(stream, signals) ==
    CHOOSE after \in {[s EXCEPT !.ended = s.ended + 1] :
                         s \in {ReadLoop([stream EXCEPT !.log = <<>>], signals)}} : TRUE

\* ReadableFromQueue._read: isPaused = false, the loop, then push(null)
\* unless isPaused
read(stream, signals) ==
    CHOOSE after \in {[s EXCEPT !.ended = IF IsPaused(s.log) \/ s.error # <<>>
                                          THEN s.ended
                                          ELSE s.ended + 1] :
                         s \in {ReadLoop([stream EXCEPT !.log = <<>>], signals)}} : TRUE

\* _read has no try/catch, so what becomes of an exception of a task is
\* decided by the Readable that called _read: it either lets the exception
\* leave read() uncaught, or catches it and destroys the stream with it,
\* which emits 'error'
Deliveries == {"uncaught exception", "error event"}

Delivered(stream, delivery) ==
    IF stream.error = <<>> THEN stream ELSE [stream EXCEPT !.delivery = delivery]

\* createReadableSchemaDefinition: new ReadableFromQueue(queue)
CreateReadable(r) ==
    /\ ~readable[r].created
    /\ \E built \in {createSchemaDefinitionQueue(schema, scalarAlias)} :
        /\ schema' = [schema EXCEPT !.types = built.types]
        /\ IF Len(built.error) > 0
           THEN /\ ret' = Thrown("createReadableSchemaDefinition", built.error)
                /\ UNCHANGED readable
           ELSE /\ readable' = [readable EXCEPT ![r] =
                                   [NoStream EXCEPT !.created = TRUE,
                                                    !.queue = built.queue]]
                /\ UNCHANGED ret
        /\ scalarAlias' = built.alias
        /\ UNCHANGED <<proc, given, promise, input, output>>

\* the stream machinery calls _read when the consumer requests data and the
\* end has not been signalled; each push answers ready (TRUE) or not (FALSE)
Read(r) ==
    /\ readable[r].created
    /\ readable[r].ended = 0
    /\ readable[r].error = <<>>
    /\ \E signals \in [1..Len(readable[r].queue) -> BOOLEAN], delivery \in Deliveries :
          readable' = [readable EXCEPT ![r] =
                          Delivered(read(readable[r], signals), delivery)]
    /\ UNCHANGED <<proc, schema, scalarAlias, given, ret, promise, input, output>>

(***************************************************************************)
(* The promise mode                                                        *)
(***************************************************************************)
\* the function next declared by the executor: resolve on an empty queue,
\* else consume one unit and schedule itself.  The executor never calls it.
next(p) ==
    IF Len(p.queue) = 0 THEN [p EXCEPT !.state = "resolved"]
    ELSE [p EXCEPT !.queue = Tail(p.queue),
                   !.buff = Cat(p.buff, Chunk(Head(p.queue)))]

\* createPromiseSchemaDefinition: builds the queue and returns a promise whose
\* executor sets buff and declares next
CreatePromise ==
    /\ promise.state = "none"
    /\ \E built \in {createSchemaDefinitionQueue(schema, scalarAlias)} :
        /\ schema' = [schema EXCEPT !.types = built.types]
        /\ IF Len(built.error) > 0
           THEN /\ ret' = Thrown("createPromiseSchemaDefinition", built.error)
                /\ UNCHANGED promise
           ELSE /\ promise' = [state |-> "pending", queue |-> built.queue,
                               buff |-> <<>>]
                /\ UNCHANGED ret
        /\ scalarAlias' = built.alias
        /\ UNCHANGED <<proc, given, readable, input, output>>

(***************************************************************************)
(* Spec: the three production modes over one schema object                 *)
(***************************************************************************)
Init ==
    /\ schema \in Schemas(StreamPool, MaxStreamTypes, StreamRoots)
    /\ scalarAlias \in StreamAliasTables
    /\ Fresh
    /\ input = NoInput
    /\ output = NoOutput

\* one caller uses each mode once: the stream it creates is r1
Next ==
    \/ CallSchemaToDefinition
    \/ CreateReadable("r1")
    \/ Read("r1")
    \/ CreatePromise

Spec == Init /\ [][Next]_vars

\* the consumer keeps requesting data from the stream
FairSpec == Spec /\ WF_vars(Read("r1"))

(***************************************************************************)
(* Claims about the work list (SpecQueue)                                  *)
(***************************************************************************)
QueueBuilt == ret.fn = "createSchemaDefinitionQueue" /\ Len(ret.text) = 0

\* the entity a unit renders, for the units after the two preamble units
Entities(queue) == [i \in 1..(Len(queue) - 2) |-> queue[i + 2].type[1]]
Keys(types) == [i \in 1..Len(types) |-> <<types[i].kind, types[i].name>>]

KindPrecedence == <<SCALAR, ENUM, UNION_KIND, INTERFACE, OBJECT, INPUT_OBJECT>>
Precedence(kind) == CHOOSE i \in 1..6 : KindPrecedence[i] = kind

InOrder(a, b) ==
    \/ Precedence(a.kind) < Precedence(b.kind)
    \/ a.kind = b.kind /\ Rank(a.name) <= Rank(b.name)

PermutationsOf(list) ==
    {[i \in 1..Len(list) |-> list[f[i]]] :
        f \in {g \in [1..Len(list) -> 1..Len(list)] :
                  \A i, j \in 1..Len(list) : i # j => g[i] # g[j]}}

KeysUnique(types) ==
    \A i, j \in 1..Len(types) : i # j => Keys(types)[i] # Keys(types)[j]

\* C1: the entity units of the work list are ordered by kind precedence
\* SCALAR < ENUM < UNION < INTERFACE < OBJECT < INPUT_OBJECT and, within a
\* kind, by name ascending; every permutation of the input type collection
\* gives the same order of (kind, name), and the same units whenever no two
\* entities share kind and name.
C1_UnitsOrdered ==
    QueueBuilt =>
        LET es == Entities(ret.queue)
        IN  /\ \A i, j \in 1..Len(es) : i < j => InOrder(es[i], es[j])
            /\ \A p \in PermutationsOf(given) :
                  LET q == createSchemaDefinitionQueue(
                               [schema EXCEPT !.types = p], scalarAlias).queue
                  IN  /\ Keys(Entities(q)) = Keys(es)
                      /\ KeysUnique(given) => q = ret.queue

\* C1 witness: a work list built from an input that was out of order, with
\* two entities of one kind
C1_Witness ==
    /\ QueueBuilt
    /\ Len(given) >= 3
    /\ given # schema.types
    /\ \E i, j \in 1..Len(given) :
          i < j /\ given[i].kind = given[j].kind
                /\ Rank(given[i].name) > Rank(given[j].name)

\* C2: for a schema with N entities of known kind the work list has N + 2
\* units: unit 0 the utility-alias preamble, unit 1 the Response/Error
\* scaffolding, and every entity rendered by exactly one later unit, with
\* the renderer of its kind.
C2_UnitsCount ==
    QueueBuilt =>
        /\ Len(ret.queue) = Len(given) + 2
        /\ RunTask(ret.queue[1]) = utilDefinition
        /\ RunTask(ret.queue[2]) = responseDefinition(ResponseTypes(schema))
        /\ \A i \in 1..Len(given) :
              Cardinality({j \in 3..Len(ret.queue) :
                              /\ ret.queue[j].type = <<given[i]>>
                              /\ ret.queue[j].task = Renderer(given[i].kind)}) = 1

\* C2 witness: a work list built for a schema of at least two entities
C2_Witness == QueueBuilt /\ Len(given) >= 2 /\ given[1].kind # SCALAR

\* the alias expression a SCALAR block declares: the token before ";"
AliasOf(text) == text[Len(text) - 1]
ScalarUnits(queue) == {i \in 1..Len(queue) : queue[i].task = "scalarToDefinition"}

\* C7: a caller entry for a built-in scalar name (Boolean, Int, Float,
\* String) overrides the built-in mapping: the SCALAR block for that name
\* emits the caller's expression.
C7_CallerOverridesBuiltin ==
    QueueBuilt =>
        \A i \in ScalarUnits(ret.queue) :
            LET name == ret.queue[i].type[1].name
            IN  (name \in BuiltinNames /\ scalarAlias[name] # Undefined)
                    => /\ ret.queue[i].scalarAlias[name] = scalarAlias[name]
                       /\ AliasOf(RunTask(ret.queue[i])) = scalarAlias[name]

WorkList ==
    createSchemaDefinitionQueue([schema EXCEPT !.types = given], scalarAlias).queue

\* what a consumer has received: the chunks in the order pushed
Received(stream) == Join(stream.pushed, <<>>)

\* C3: the chunked mode pushes one chunk per work-list unit, the unit's text
\* followed by the two-line-break separator, in work-list order, and the
\* chunks pushed before end-of-stream concatenate to the string the eager
\* schemaToDefinition returns, whatever the consumer's ready signals.
C3_ChunksEqualEager ==
    LET stream == readable["r1"]
    IN  stream.created =>
            /\ Len(stream.pushed) + Len(stream.queue) = Len(WorkList)
            /\ \A i \in 1..Len(stream.pushed) :
                  stream.pushed[i] = RunTask(WorkList[i]) \o <<EOL, EOL>>
            /\ stream.ended > 0 =>
                  /\ Received(stream) = schemaToDefinitionText(WorkList)
                  /\ ret.fn = "schemaToDefinition" => Received(stream) = ret.text

\* C3 witness: a stream that ended after a not-ready signal, next to an
\* eager result for the same schema
C3_Witness ==
    /\ readable["r1"].ended > 0
    /\ Len(readable["r1"].pushed) >= 4
    /\ ret.fn = "schemaToDefinition"
    /\ \E i \in 1..Len(readable["r1"].log) : ~readable["r1"].log[i]

\* C4: the promise of createPromiseSchemaDefinition eventually resolves,
\* with the text schemaToDefinition returns for the same inputs.
C4_PromiseResolves ==
    (promise.state = "pending")
        ~> (promise.state = "resolved"
            /\ promise.buff = schemaToDefinitionText(WorkList))

\* C5: once a push returns false (consumer not ready) _read pushes no
\* further unit in that call; while the consumer is ready production
\* continues, so a call stops on a ready signal only with the queue empty.
C5_Backpressure ==
    LET stream == readable["r1"]
    IN  /\ \A i \in 1..Len(stream.log) : ~stream.log[i] => i = Len(stream.log)
        /\ (Len(stream.log) > 0 /\ stream.log[Len(stream.log)])
              => Len(stream.queue) = 0

Ended(r) == readable[r].ended > 0

\* C6: if the consumer keeps requesting data, end-of-stream is eventually
\* signalled, exactly once, only after the chunk of every work-list unit has
\* been pushed; no chunk is pushed after it and the work list stays empty.
C6_EndOfStream ==
    /\ readable["r1"].created ~> Ended("r1")
    /\ [](readable["r1"].ended <= 1)
    /\ [](Ended("r1") => /\ Len(readable["r1"].queue) = 0
                         /\ Len(readable["r1"].pushed) = Len(WorkList))
    /\ [][Ended("r1") => readable'["r1"] = readable["r1"]]_vars

\* C6 witness: end-of-stream signalled after the chunks of a schema's units
C6_Witness == Ended("r1") /\ Len(readable["r1"].pushed) = MaxStreamTypes + 2

\* the kinds in the supplied schema that no renderer knows
UnknownKinds == {given[i].kind : i \in 1..Len(given)} \ Kinds

Failed(result) ==
    /\ result.queue = <<>>
    /\ \E kind \in UnknownKinds : result.text = <<"!Error", "Unexpected type: ", kind>>

\* C14: with an entity of unknown kind anywhere in the schema, every
\* production mode fails with an error whose message names that kind: each
\* step of schemaToDefinition, createReadableSchemaDefinition and
\* createPromiseSchemaDefinition leaves through the exception, no stream or
\* promise is ever created, no chunk pushed and no text returned.
C14_UnknownKindFails ==
    /\ [](UnknownKinds # {} =>
            /\ readable = [r \in Streams |-> NoStream]
            /\ promise = NoPromise
            /\ ret.fn # "none" => Failed(ret))
    /\ [][UnknownKinds # {} =>
            ret'.fn \in {"schemaToDefinition", "createReadableSchemaDefinition",
                         "createPromiseSchemaDefinition"} /\ Failed(ret')]_vars

\* C14 witness: createReadableSchemaDefinition has thrown for a schema whose
\* entity of unknown kind is last in the input, after a known one
C14_Witness ==
    /\ Len(given) = MaxStreamTypes
    /\ given[1].kind \in Kinds
    /\ given[Len(given)].kind \notin Kinds
    /\ ret = Thrown("createReadableSchemaDefinition",
                    <<"!Error", "Unexpected type: ", given[Len(given)].kind>>)

\* C15: a translation call leaves the schema unchanged: after every step of
\* an entry point schema.types holds the same entities in the same sequence
\* as before it.
C15_SchemaUnchanged == [][schema'.types = schema.types]_vars

\* C29: no entry point modifies the caller's alias table: every step of a
\* mode leaves the table as it was, and the units a later call builds from it
\* carry the table's entries merged with the built-in mappings.
C29_AliasTableUnchanged ==
    /\ [][scalarAlias' = scalarAlias]_vars
    /\ [](\A r \in Streams : \A i \in 1..Len(readable[r].queue) :
            readable[r].queue[i].scalarAlias = EffectiveAlias(scalarAlias))
    /\ [](\A i \in 1..Len(promise.queue) :
            promise.queue[i].scalarAlias = EffectiveAlias(scalarAlias))

\* all three modes have run on a table with a caller entry, the later ones
\* after the earlier ones
C29_Witness ==
    /\ ret.fn = "schemaToDefinition"
    /\ readable["r1"].created
    /\ promise.state = "pending"
    /\ scalarAlias["A"] = "Date"
    /\ scalarAlias["Int"] = Undefined

(***************************************************************************)
(* SpecTwice: schemaToDefinition called up to MaxCalls times in succession *)
(* on one schema object with one alias table; output keeps the texts       *)
(* returned (or errors thrown), in call order.                             *)
(***************************************************************************)
TwicePool == {ScalarInt, ScalarA, ScalarADoc, ObjectB, UnknownA}

InitTwice ==
    /\ schema \in Schemas(TwicePool, MaxTypes, StreamRoots)
    /\ scalarAlias \in StreamAliasTables
    /\ Fresh
    /\ input = [fn |-> "schemaToDefinition"]
    /\ output = <<>>

CallSchemaToDefinitionAgain ==
    /\ Len(output) < MaxCalls
    /\ \E built \in {createSchemaDefinitionQueue(schema, scalarAlias)} :
        \E text \in {IF Len(built.error) > 0 THEN built.error
                      ELSE schemaToDefinitionText(built.queue)} :
            /\ schema' = [schema EXCEPT !.types = built.types]
            /\ ret' = [fn |-> "schemaToDefinition", queue |-> <<>>, text |-> text]
            /\ scalarAlias' = built.alias
            /\ output' = Append(output, text)
    /\ UNCHANGED <<proc, given, readable, promise, input>>

NextTwice == CallSchemaToDefinitionAgain

SpecTwice == InitTwice /\ [][NextTwice]_vars

\* C16: successive schemaToDefinition calls on the same schema object with
\* the same alias table return the same string, whether or not the type
\* collection was sorted before the first call and also with two entities
\* of equal kind and name.
C16_SecondCallSame ==
    input.fn = "schemaToDefinition" =>
        \A i, j \in 1..Len(output) : output[i] = output[j]

\* C16 witness: two calls have returned text for a schema that was unsorted
\* before the first and holds two entities of equal kind and name
C16_Witness ==
    /\ input.fn = "schemaToDefinition"
    /\ Len(output) = 2
    /\ ~IsErr(output[2])
    /\ given # SortTypes(given)
    /\ \E i, j \in 1..Len(given) :
          i < j /\ given[i] = ScalarADoc /\ given[j] = ScalarA

(***************************************************************************)
(* SpecTwo: two chunked translations over one schema object and alias      *)
(* table, their creation and their _read calls interleaved.                *)
(***************************************************************************)
TwoPool == {ScalarA, ScalarADoc, ObjectB}

InitTwo ==
    /\ schema \in Schemas(TwoPool, MaxStreamTypes, StreamRoots)
    /\ scalarAlias \in StreamAliasTables
    /\ Fresh
    /\ input = NoInput
    /\ output = NoOutput

NextTwo == \E r \in Streams : CreateReadable(r) \/ Read(r)

SpecTwo == InitTwo /\ [][NextTwo]_vars

\* a stream is where a translation run alone would be after as many pushes
AsAlone(stream) ==
    /\ Len(stream.pushed) <= Len(WorkList)
    /\ stream.pushed = [i \in 1..Len(stream.pushed) |->
                            RunTask(WorkList[i]) \o <<EOL, EOL>>]
    /\ stream.queue = SubSeq(WorkList, Len(stream.pushed) + 1, Len(WorkList))

\* C17: of two chunked translations over the same schema object and alias
\* table, created and read in any interleaving, each holds the work list
\* and emits the chunk sequence of a single translation run alone, and a
\* step of one leaves the other as it was.
C17_StreamsIndependent ==
    /\ [](\A r \in Streams : readable[r].created => AsAlone(readable[r]))
    /\ [][\A r \in Streams :
            readable'[r] # readable[r] =>
                \A o \in Streams \ {r} : readable'[o] = readable[o]]_vars

\* C17 witness: both translations are under way at different points of a
\* schema that was unsorted when the first was created
C17_Witness ==
    /\ readable["r1"].created /\ readable["r2"].created
    /\ given # schema.types
    /\ 0 < Len(readable["r1"].pushed)
    /\ Len(readable["r1"].pushed) < Len(readable["r2"].pushed)
    /\ Len(readable["r2"].pushed) < Len(WorkList)
    /\ readable["r2"].ended = 0

(***************************************************************************)
(* SpecRoots: the work list and the eager text for schemas with every      *)
(* combination of root operation types present or absent.                  *)
(***************************************************************************)
RootsPool == {ScalarInt, ObjectB}

AllRoots ==
    {<<q, m, s>> : q \in {<<>>, Root("Query"), Root("B")},
                   m \in {<<>>, Root("Mutation")},
                   s \in {<<>>, Root("Subscription"), Root("b")}}

InitRoots ==
    /\ schema \in Schemas(RootsPool, MaxStreamTypes, AllRoots)
    /\ scalarAlias = EmptyAlias
    /\ Fresh
    /\ input = NoInput
    /\ output = NoOutput

SpecRoots == InitRoots /\ [][NextQueue]_vars

\* the names of the roots present, in the order query, mutation,
\* subscription
PresentRoots ==
    LET roots == schema.queryType \o schema.mutationType \o schema.subscriptionType
    IN  [i \in 1..Len(roots) |-> roots[i].name]

\* the alternatives of the data member: the root names, then null, with
\* ' | ' between neighbours
DataAlternatives ==
    LET k == Len(PresentRoots)
    IN  [i \in 1..(2 * k + 1) |->
            IF i % 2 = 0 THEN " | "
            ELSE IF i = 2 * k + 1 THEN "null"
            ELSE PresentRoots[(i + 1) \div 2]]

\* the data member line of a text
DataLine(text) ==
    LET lines == SplitAt(text, EOL)
    IN  {lines[i] : i \in {j \in 1..Len(lines) :
                              Len(lines[j]) >= 2 /\ lines[j][2] = "data: "}}

\* C18: the data member of the Response scaffolding is typed as the names
\* of the root types present, in the order query, mutation, subscription,
\* joined by ' | ', with null as the last alternative; an absent root adds
\* nothing and a schema without roots gives just null.  The same holds in
\* the work list's unit and in the eager text.
C18_ResponseData ==
    /\ QueueBuilt =>
          DataLine(RunTask(ret.queue[2])) = {<<TAB, "data: ">> \o DataAlternatives \o <<";">>}
    /\ (ret.fn = "schemaToDefinition" /\ ~IsErr(ret.text)) =>
          DataLine(ret.text) = {<<TAB, "data: ">> \o DataAlternatives \o <<";">>}

\* C18 witness: a work list built for a schema with a query and a
\* subscription root and no mutation root
C18_Witness ==
    /\ QueueBuilt
    /\ Len(schema.queryType) = 1
    /\ Len(schema.mutationType) = 0
    /\ Len(schema.subscriptionType) = 1
    /\ Len(RunTask(ret.queue[2])) > 0

(***************************************************************************)
(* SpecRef: the Type-Reference Resolver as a pure function.  Init draws a  *)
(* TypeRef of nesting depth <= MaxDepth and the enclosing flag; the one     *)
(* action applies refToDefinition.                                          *)
(***************************************************************************)
InitRef ==
    /\ Idle
    /\ input \in {[fn |-> "refToDefinition", type |-> t, isNonNull |-> b] :
                    t \in TypeRefs(MaxDepth), b \in BOOLEAN}
    /\ output = NoOutput

CallRefToDefinition ==
    /\ input.fn = "refToDefinition"
    /\ output = NoOutput
    /\ output' = refToDefinition(input.type, input.isNonNull)
    /\ UNCHANGED <<proc, schema, scalarAlias, given, ret, readable, promise, input>>

NextRef == CallRefToDefinition

SpecRef == InitRef /\ [][NextRef]_vars

(***************************************************************************)
(* SpecBadRef: refToDefinition on malformed references, whose leaf is      *)
(* neither a wrapper nor named.                                            *)
(***************************************************************************)
\* a leaf with a kind other than LIST / NON_NULL (or none) and no name
BadLeaves ==
    {[kind |-> k, name |-> n, ofType |-> <<>>] :
        k \in {SCALAR, OBJECT, Undefined}, n \in {Null, Undefined}}

RECURSIVE BadRefs(_)
BadRefs(d) ==
    IF d = 0 THEN BadLeaves
    ELSE LET inner == BadRefs(d - 1)
         IN  inner \cup {ListOf(t) : t \in inner} \cup {NonNullOf(t) : t \in inner}

InitBadRef ==
    /\ Idle
    /\ input \in {[fn |-> "refToDefinition", type |-> t, isNonNull |-> b] :
                    t \in BadRefs(MaxDepth), b \in BOOLEAN}
    /\ output = NoOutput

SpecBadRef == InitBadRef /\ [][NextRef]_vars

\* C25: resolving a TypeRef whose leaf is neither a LIST / NON_NULL wrapper
\* nor named fails: the call ends in an error and produces no text.
C25_MalformedRefFails ==
    (input.fn = "refToDefinition" /\ output # NoOutput) => IsErr(output)

(***************************************************************************)
(* The reference recursion of the resolver in closed form: the wrappers    *)
(* of a TypeRef from the outside in, its leaf, and the text they determine. *)
(***************************************************************************)
RECURSIVE Wrappers(_)
Wrappers(type) ==
    IF type.ofType = <<>> THEN <<>> ELSE <<type.kind>> \o Wrappers(type.ofType[1])

RECURSIVE Leaf(_)
Leaf(type) == IF type.ofType = <<>> THEN type.name ELSE Leaf(type.ofType[1])

Opener(kind) == IF kind = LIST THEN "List<" ELSE "NonNull<"

ExpectedRef(type, flag) ==
    LET w == Wrappers(type)
        n == Len(w)
        bare == IF n = 0 THEN flag ELSE w[n] = NON_NULL
    IN  [i \in 1..n |-> Opener(w[i])]
        \o (IF bare THEN <<Leaf(type)>> ELSE <<"Optional<", Leaf(type), ">">>)
        \o [i \in 1..n |-> ">"]

RefCalled == input.fn = "refToDefinition" /\ output # NoOutput

C10_OutermostIsNonNullOrOptional ==
    (RefCalled /\ ~input.isNonNull) =>
        /\ output[1] \in {"NonNull<", "Optional<"}
        /\ input.type = ListOf(NonNullOf(Named("T")))
              => output = <<"Optional<", "List<", "NonNull<", "T", ">", ">", ">">>

(***************************************************************************)
(* SpecAlias: GraphTypeCommand.getAlias as a pure function of the flags.   *)
(* A list flag is <<>> when not given and <<list>> when given; a pair is   *)
(* the text of one --alias argument, '=' being a token of its own and      *)
(* every run between two '=' one token.                                    *)
(***************************************************************************)
NumberNames == {"A", "B", "Int"}

PairTexts ==
    {<<"A", "=", "Date">>,
     <<"A", "=", "number | string">>,
     <<"Int", "=", "bigint">>,
     <<"A", "=", "() ", "=", "> void">>}

ListFlags(S, n) == {<<>>} \cup {<<list>> : list \in SeqsOver(S, n)}

\* the string of a run of at most one token
Str(run) == IF run = <<>> THEN "" ELSE run[1]

\* scalarNumbers.forEach(scalarName => alias[scalarName] = 'number')
RECURSIVE AssignNumbers(_, _)
AssignNumbers(alias, names) ==
    IF names = <<>> THEN alias
    ELSE AssignNumbers([alias EXCEPT ![Head(names)] = "number"], Tail(names))

\* scalarAlias.forEach: [scalarName, scalarRepresentation] = pair.split('=')
RECURSIVE AssignPairs(_, _)
AssignPairs(alias, pairs) ==
    IF pairs = <<>> THEN alias
    ELSE LET parts == SplitAt(Head(pairs), "=")
             scalarName == Str(parts[1])
             scalarRepresentation ==
                 IF Len(parts) >= 2 THEN Str(parts[2]) ELSE Undefined
         IN  AssignPairs([alias EXCEPT ![scalarName] = scalarRepresentation],
                         Tail(pairs))

getAlias(flags) ==
    LET numbered == IF flags.scalarNumbers # <<>>
                    THEN AssignNumbers(EmptyAlias, flags.scalarNumbers[1])
                    ELSE EmptyAlias
    IN  IF flags.scalarAlias # <<>>
        THEN AssignPairs(numbered, flags.scalarAlias[1])
        ELSE numbered

InitAlias ==
    /\ Idle
    /\ input \in {[fn |-> "getAlias", scalarNumbers |-> ns, scalarAlias |-> ps] :
                    ns \in ListFlags(NumberNames, MaxMembers),
                    ps \in ListFlags(PairTexts, MaxMembers)}
    /\ output = NoOutput

CallGetAlias ==
    /\ input.fn = "getAlias"
    /\ output = NoOutput
    /\ output' = getAlias(input)
    /\ UNCHANGED <<proc, schema, scalarAlias, given, ret, readable, promise, input>>

NextAlias == CallGetAlias

SpecAlias == InitAlias /\ [][NextAlias]_vars

\* a list flag as a list
Given(flag) == IF flag = <<>> THEN <<>> ELSE flag[1]

\* the pairs of the flag that name a scalar, and the expression of a pair:
\* the text after its first '='
PairsNaming(name) ==
    {i \in 1..Len(Given(input.scalarAlias)) : Given(input.scalarAlias)[i][1] = name}
ExpressionOf(pair) == SubSeq(pair, 3, Len(pair))

\* C26: in the table of getAlias a name given in the pair list maps to the
\* expression of the last pair that names it, also when the numeric list
\* names it too; a name only in the numeric list maps to 'number'; any other
\* name has no entry.
C26_PairsOverrideNumbers ==
    (input.fn = "getAlias" /\ output # NoOutput) =>
        \A name \in AliasKeys :
            IF PairsNaming(name) # {}
            THEN LET last == CHOOSE i \in PairsNaming(name) :
                                 \A j \in PairsNaming(name) : j <= i
                 IN  <<output[name]>> = ExpressionOf(Given(input.scalarAlias)[last])
            ELSE IF \E i \in 1..Len(Given(input.scalarNumbers)) :
                        Given(input.scalarNumbers)[i] = name
                THEN output[name] = "number"
            ELSE output[name] = Undefined

(***************************************************************************)
(* SpecRender: the comment synthesizer and the per-kind renderers as pure  *)
(* functions.  Init draws one call (function, argument, optional second    *)
(* argument); one action per function applies it.                          *)
(***************************************************************************)
Call(fn, arg, opt) == [fn |-> fn, arg |-> arg, opt |-> opt]

\* the facets a Description / Deprecation / AsDefault object can carry
Facets ==
    {[description |-> d, isDeprecated |-> dep, deprecationReason |-> why,
      defaultValue |-> dv] :
        d \in {Null, "", "doc"}, dep \in BOOLEAN, why \in {Null, "why"},
        dv \in {Undefined, Null, "", Zero, False, "1"}}

FieldFacets ==
    {<<Null, FALSE, Null>>, <<"doc", FALSE, Null>>, <<Null, TRUE, Null>>,
     <<"doc", TRUE, "why">>}

Fields(d) ==
    {[Field("f", t) EXCEPT !.description = x[1], !.isDeprecated = x[2],
                           !.deprecationReason = x[3]] :
        t \in TypeRefs(d), x \in FieldFacets}

InputValues(d) ==
    {[InputValue("f", t, dv) EXCEPT !.description = desc] :
        t \in TypeRefs(d), dv \in {Null, "1"}, desc \in {Null, "doc"}}

EnumValues ==
    {[EnumValue("X") EXCEPT !.description = x[1], !.isDeprecated = x[2],
                            !.deprecationReason = x[3]] : x \in FieldFacets}

\* the member lists of the blocks rendered
MemberFields ==
    {Field("id", NonNullOf(Named("ID"))),
     Field("friends", ListOf(NonNullOf(Named("ID")))),
     [Field("name", Named("T")) EXCEPT !.description = "doc"]}
MemberNames == {"A", "b", "B"}

Descriptions == {Null, "doc"}

Objects(n) ==
    {[Type(OBJECT, "O", d) EXCEPT
         !.fields = fs,
         !.interfaces = [i \in 1..Len(is) |-> Named(is[i])]] :
        d \in Descriptions, fs \in SeqsOver(MemberFields, n),
        is \in SeqsOver(MemberNames, n)}

Interfaces(n) ==
    {[Type(INTERFACE, "I", d) EXCEPT !.fields = fs] :
        d \in Descriptions, fs \in SeqsOver(MemberFields, n)}

Unions(n) ==
    {[Type(UNION_KIND, "U", d) EXCEPT
         !.possibleTypes = [i \in 1..Len(ps) |-> Named(ps[i])]] :
        d \in Descriptions, ps \in SeqsOver(MemberNames, n + 1)}

Scalars == {Type(SCALAR, "S", d) : d \in Descriptions}

Enums ==
    {[Type(ENUM, "E", d) EXCEPT !.enumValues = vs] :
        d \in Descriptions, vs \in SeqsOver(EnumValues, 1)}

Inputs ==
    {[Type(INPUT_OBJECT, "In", d) EXCEPT !.inputFields = as] :
        d \in Descriptions, as \in SeqsOver(InputValues(0), 1)}

RenderCalls ==
    {Call("descriptionToComment", desc, tab) : desc \in Facets, tab \in {"", TAB}}
    \cup {Call("fieldToDefinition", f, Undefined) : f \in Fields(MaxDepth)}
    \cup {Call("inputValueToDefinition", a, Undefined) : a \in InputValues(MaxDepth)}
    \cup {Call("enumValueToDefinition", v, Undefined) : v \in EnumValues}
    \cup {Call("scalarToDefinition", t, a) : t \in Scalars, a \in {Undefined, "Date"}}
    \cup {Call("enumToDefinition", t, Undefined) : t \in Enums}
    \cup {Call("unionToDefinition", t, Undefined) : t \in Unions(MaxMembers)}
    \cup {Call("interfaceToDefinition", t, Undefined) : t \in Interfaces(MaxMembers)}
    \cup {Call("typeToDefinition", t, Undefined) : t \in Objects(MaxMembers)}
    \cup {Call("inputToDefinition", t, Undefined) : t \in Inputs}

InitRender ==
    /\ Idle
    /\ input \in RenderCalls
    /\ output = NoOutput

\* the call drawn has not returned yet
Pending(fn) == input.fn = fn /\ output = NoOutput

Returns(text) ==
    /\ output' = text
    /\ UNCHANGED <<proc, schema, scalarAlias, given, ret, readable, promise, input>>

CallDescriptionToComment ==
    Pending("descriptionToComment") /\ Returns(descriptionToComment(input.arg, input.opt))
CallFieldToDefinition ==
    Pending("fieldToDefinition") /\ Returns(fieldToDefinition(input.arg))
CallInputValueToDefinition ==
    Pending("inputValueToDefinition") /\ Returns(inputValueToDefinition(input.arg))
CallEnumValueToDefinition ==
    Pending("enumValueToDefinition") /\ Returns(enumValueToDefinition(input.arg))
CallScalarToDefinition ==
    Pending("scalarToDefinition") /\ Returns(scalarToDefinition(input.arg, input.opt))
CallEnumToDefinition ==
    Pending("enumToDefinition") /\ Returns(enumToDefinition(input.arg))
CallUnionToDefinition ==
    Pending("unionToDefinition") /\ Returns(unionToDefinition(input.arg))
CallInterfaceToDefinition ==
    Pending("interfaceToDefinition") /\ Returns(interfaceToDefinition(input.arg))
CallTypeToDefinition ==
    Pending("typeToDefinition") /\ Returns(typeToDefinition(input.arg))
CallInputToDefinition ==
    Pending("inputToDefinition") /\ Returns(inputToDefinition(input.arg))

NextRender ==
    \/ CallDescriptionToComment
    \/ CallFieldToDefinition
    \/ CallInputValueToDefinition
    \/ CallEnumValueToDefinition
    \/ CallScalarToDefinition
    \/ CallEnumToDefinition
    \/ CallUnionToDefinition
    \/ CallInterfaceToDefinition
    \/ CallTypeToDefinition
    \/ CallInputToDefinition

SpecRender == InitRender /\ [][NextRender]_vars

(***************************************************************************)
(* Claims about the renderers (SpecRender)                                 *)
(***************************************************************************)
Rendered(fn) == input.fn = fn /\ output # NoOutput

\* the token that follows the member's name on its line
SeparatorOf(text, name) ==
    text[(CHOOSE i \in Positions(text, name) : TRUE) + 1]

MemberRendered == Rendered("fieldToDefinition") \/ Rendered("inputValueToDefinition")

\* C11: the member line of a field or input value has the separator ': '
\* exactly when the outermost kind of its type is NON_NULL and '?: '
\* otherwise (named leaf or LIST outermost), whatever the inner wrappers.
C11_SeparatorByOuterKind ==
    MemberRendered =>
        LET w == Wrappers(input.arg.type)
            required == Len(w) > 0 /\ w[1] = NON_NULL
        IN  /\ Cardinality(Positions(output, input.arg.name)) = 1
            /\ SeparatorOf(output, input.arg.name) = (IF required THEN ": " ELSE "?: ")
            /\ Cardinality(Positions(output, ": ") \cup Positions(output, "?: ")) = 1

\* C11 witness: an input value whose type is a list of non-null elements
\* has been rendered
C11_Witness ==
    /\ Rendered("inputValueToDefinition")
    /\ input.arg.type = ListOf(NonNullOf(Named("T")))
    /\ SeparatorOf(output, "f") = "?: "

\* the facets present in desc, as the comment texts they stand for, in the
\* order deprecation notice, default, description
Absent == {Undefined, Null, "", Zero, False}
Has(desc, key) == desc[key] \notin Absent
FacetTexts(desc) ==
    (IF desc.isDeprecated
     THEN <<IF Has(desc, "deprecationReason")
            THEN "@deprecated " \o desc.deprecationReason ELSE "@deprecated">>
     ELSE <<>>)
    \o (IF Has(desc, "defaultValue") THEN <<"@default " \o desc.defaultValue>> ELSE <<>>)
    \o (IF Has(desc, "description") THEN <<desc.description>> ELSE <<>>)

Indent(tab) == IF tab = "" THEN <<>> ELSE <<tab>>

\* line i of the block for n facet texts: the opening delimiter, facet
\* texts on the even lines with blank comment lines between them, the
\* closing delimiter
BlockLine(texts, tab, i) ==
    IF i = 1 THEN Indent(tab) \o <<"/**">>
    ELSE IF i = 2 * Len(texts) + 1 THEN Indent(tab) \o <<" */">>
    ELSE IF i % 2 = 0 THEN Indent(tab) \o <<" * ", texts[i \div 2]>>
    ELSE Indent(tab) \o <<" * ">>

ExpectedBlock(texts, tab) == [i \in 1..(2 * Len(texts) + 1) |-> BlockLine(texts, tab, i)]

\* C12: for every non-empty combination of present facets the block of
\* descriptionToComment is the opening delimiter line, the facets in the
\* order deprecation notice ('@deprecated' plus the reason when given),
\* '@default <literal>', description, one blank comment line between
\* consecutive facets and none before the first or after the last, and the
\* closing delimiter line.
C12_FacetOrder ==
    (Rendered("descriptionToComment") /\ FacetTexts(input.arg) # <<>>) =>
        SplitAt(output, LF) = ExpectedBlock(FacetTexts(input.arg), input.opt)

\* C12 witness: a block rendered for an indented member that is deprecated
\* with a reason, has a default and a description
C12_Witness ==
    /\ Rendered("descriptionToComment")
    /\ input.opt = TAB
    /\ Len(FacetTexts(input.arg)) = 3
    /\ Has(input.arg, "deprecationReason")
    /\ Len(SplitAt(output, LF)) = 7

EntityRenderers ==
    {"scalarToDefinition", "enumToDefinition", "unionToDefinition",
     "interfaceToDefinition", "typeToDefinition", "inputToDefinition"}
MemberRenderers ==
    {"fieldToDefinition", "inputValueToDefinition", "enumValueToDefinition"}

\* the indent at which a renderer writes the comment of its own argument
OwnIndent(fn) == IF fn \in EntityRenderers THEN <<>> ELSE <<TAB>>

\* the comment lines of a text at an indent: the positions of the comment
\* tokens that start a line (after the indent, if any)
CommentTokens == {"/**", " * ", " */"}
StartsLine(text, i) == i = 1 \/ text[i - 1] \in {EOL, LF}
CommentLines(text, indent) ==
    {i \in 1..Len(text) :
        /\ text[i] \in CommentTokens
        /\ IF indent = <<>> THEN StartsLine(text, i)
           ELSE i > 1 /\ text[i - 1] = indent[1] /\ StartsLine(text, i - 1)}

NoFacets(x) ==
    /\ Prop(x, "description") \in {Undefined, Null, ""}
    /\ Prop(x, "defaultValue") \in Absent
    /\ ~("isDeprecated" \in DOMAIN x /\ x.isDeprecated)

OnlyDescription(x) ==
    /\ Prop(x, "description") \notin {Undefined, Null, ""}
    /\ Prop(x, "defaultValue") \in Absent
    /\ ~("isDeprecated" \in DOMAIN x /\ x.isDeprecated)

OwnRendered ==
    input.fn \in EntityRenderers \cup MemberRenderers /\ output # NoOutput /\ ~IsErr(output)

\* C13: an entity, field, input value or enum value with no description,
\* no deprecation and no default is rendered with no comment line of its
\* own (no delimiter either); one with only a description is rendered with
\* exactly one comment block, holding that description.
C13_CommentPresence ==
    OwnRendered =>
        LET own == CommentLines(output, OwnIndent(input.fn))
        IN  /\ NoFacets(input.arg) => own = {}
            /\ OnlyDescription(input.arg) =>
                  \E i \in own :
                      /\ own = {i, i + Len(OwnIndent(input.fn)) + 2,
                                i + 2 * Len(OwnIndent(input.fn)) + 5}
                      /\ SubSeq(output, i, i + 1) = <<"/**", LF>>
                      /\ SubSeq(output, i + Len(OwnIndent(input.fn)) + 2,
                                        i + Len(OwnIndent(input.fn)) + 4)
                            = <<" * ", input.arg.description, LF>>
                      /\ output[i + 2 * Len(OwnIndent(input.fn)) + 5] = " */"

\* C13 witness: a documented OBJECT whose two fields are undocumented has
\* been rendered, with the three lines of its one comment block
C13_Witness ==
    /\ Rendered("typeToDefinition")
    /\ OnlyDescription(input.arg)
    /\ Len(input.arg.fields) = 2
    /\ \A i \in 1..2 : NoFacets(input.arg.fields[i])
    /\ Cardinality(CommentLines(output, <<>>)) = 3

\* names with sep between neighbours
Interleaved(names, sep) ==
    [i \in 1..(2 * Len(names) - 1) |-> IF i % 2 = 0 THEN sep ELSE names[(i + 1) \div 2]]

NamesOf(refs) == [i \in 1..Len(refs) |-> refs[i].name]

\* the lines of a block that start with the given token
LinesFrom(text, first) ==
    SelectSeq(SplitAt(text, EOL), LAMBDA line : Len(line) > 0 /\ line[1] = first)

\* the member lines of a block: indented, and not part of a comment
IsMemberLine(line) == Len(line) >= 2 /\ line[1] = TAB /\ line[2] \notin CommentTokens
MemberLines(text) == SelectSeq(SplitAt(text, EOL), IsMemberLine)

\* C19: an OBJECT block declares ' extends ' and the names of its
\* interfaces joined by ', ' in input order exactly when it implements at
\* least one; an INTERFACE block never has an extends clause; either block
\* has one member line per field, in input order.
C19_ExtendsAndMembers ==
    /\ Rendered("typeToDefinition") =>
          LinesFrom(output, "export interface ") =
              << <<"export interface ", input.arg.name>>
                 \o (IF Len(input.arg.interfaces) = 0 THEN <<>>
                     ELSE <<" extends ">>
                          \o Interleaved(NamesOf(input.arg.interfaces), ", "))
                 \o <<" {">> >>
    /\ Rendered("interfaceToDefinition") =>
          LinesFrom(output, "export interface ") =
              << <<"export interface ", input.arg.name, " {">> >>
    /\ (Rendered("typeToDefinition") \/ Rendered("interfaceToDefinition")) =>
          LET lines == MemberLines(output)
          IN  /\ Len(lines) = Len(input.arg.fields)
              /\ \A i \in 1..Len(lines) : lines[i][2] = input.arg.fields[i].name

\* C19 witness: an OBJECT implementing two interfaces, with two fields, has
\* been rendered
C19_Witness ==
    /\ Rendered("typeToDefinition")
    /\ NamesOf(input.arg.interfaces) = <<"b", "A">>
    /\ Len(input.arg.fields) = 2
    /\ Len(MemberLines(output)) = 2

\* C20: the type-alias statement of a UNION block lists the names of
\* possibleTypes, each once, joined by ' | ' in input order; with no
\* description the block is that one line.
C20_UnionMembers ==
    Rendered("unionToDefinition") =>
        LET statement == <<"export type ", input.arg.name, " = ">>
                         \o Interleaved(NamesOf(input.arg.possibleTypes), " | ")
                         \o <<";">>
        IN  /\ LinesFrom(output, "export type ") = <<statement>>
            /\ NoFacets(input.arg) => output = statement

\* C20 witness: an undocumented union of B, A and b, in that order, has been
\* rendered
C20_Witness ==
    /\ Rendered("unionToDefinition")
    /\ NoFacets(input.arg)
    /\ NamesOf(input.arg.possibleTypes) = <<"B", "A", "b">>
    /\ Len(output) = 9

\* the comment block of a member opens with the given facet text
OpensWith(text, facet) ==
    \E i \in Positions(text, "/**") :
        /\ i + 4 <= Len(text)
        /\ SubSeq(text, i + 1, i + 4) = <<LF, TAB, " * ", facet>>

\* C21: an input value with a default-value literal is rendered with a
\* comment block holding '@default ' and the literal, with or without a
\* description.
C21_DefaultAnnotated ==
    (Rendered("inputValueToDefinition") /\ Has(input.arg, "defaultValue")) =>
        /\ Positions(output, "/**") # {}
        /\ Positions(output, " */") # {}
        /\ Positions(output, "@default " \o input.arg.defaultValue) # {}

\* C22: a deprecated field or enum value is rendered with a comment block
\* whose first facet is the '@deprecated' notice, with the reason when
\* given, with or without a description.
C22_DeprecationAnnotated ==
    ((Rendered("fieldToDefinition") \/ Rendered("enumValueToDefinition"))
        /\ input.arg.isDeprecated) =>
        OpensWith(output, IF Has(input.arg, "deprecationReason")
                          THEN "@deprecated " \o input.arg.deprecationReason
                          ELSE "@deprecated")

\* C23: a default value that is explicit but falsy (the number 0, the empty
\* string, false) is treated as absent: descriptionToComment returns what
\* it returns without the default, no '@default' annotation, and the empty
\* string when there is no description and no deprecation either.
C23_FalsyDefaultAbsent ==
    (Rendered("descriptionToComment") /\ input.arg.defaultValue \in {Zero, "", False}) =>
        /\ output = descriptionToComment(
                        [input.arg EXCEPT !.defaultValue = Undefined], input.opt)
        /\ \A i \in 1..Len(output) :
              output[i] \notin {"@default ", "@default 0", "@default false"}
        /\ (input.arg.description \in {Null, ""} /\ ~input.arg.isDeprecated)
              => output = <<>>

\* C23 witness: a block rendered for a deprecated, documented value whose
\* default is the number 0
C23_Witness ==
    /\ Rendered("descriptionToComment")
    /\ input.arg.defaultValue = Zero
    /\ input.arg.isDeprecated
    /\ input.arg.description = "doc"
    /\ Len(SplitAt(output, LF)) = 5

(***************************************************************************)
(* SpecCommand: one run of GraphTypeCommand.action (src/lib/command.ts).   *)
(* input holds the flags and what the world answers to the retrieval,      *)
(* schema the payload (data.__schema) of the introspection document, proc  *)
(* the process: the phase of the promise chain of action, the sink, the    *)
(* chunks pipe has written to it and the exit code (<<>> while running).   *)
(***************************************************************************)
\* an object with a LIST field that has no inner type
ObjectNoInner == [Type(OBJECT, "b", Null) EXCEPT
                     !.fields = <<Field("ids", [kind |-> LIST, name |-> Null,
                                                ofType |-> <<>>])>>]

CommandPool == {ScalarInt, ObjectB, ObjectNoInner, UnknownA}

\* a payload that is undefined (a document whose data has no __schema), and
\* one without its type list
BadPayloads == {[NoSchema EXCEPT !.shape = "undefined"],
                [NoSchema EXCEPT !.shape = "no types"]}

\* what the file or the endpoint answers: a document with data, a document
\* without data, or a failure (require throws, request passes err)
Worlds == {"document", "no data", "failure"}

\* flags.queries holds at most one --query here
Flags ==
    {[fn |-> "action", output |-> o, schemaFile |-> f, endpoint |-> e,
      queries |-> q, scalarNumbers |-> <<>>, scalarAlias |-> a, world |-> w] :
        o \in BOOLEAN, f \in BOOLEAN, e \in BOOLEAN, q \in 0..1,
        a \in {<<>>, << <<(<<"A", "=", "Date">>)>> >>}, w \in Worlds}

\* getSchema: what becomes of the call.  "throws": the exception leaves
\* getSchema, and action, synchronously (reduce without an initial value on
\* an empty list); "uncaught": the request callback throws reading
\* introspection.data.__schema; "rejects" and "resolves": the promise
\* returned settles.
getSchema(flags) ==
    IF flags.schemaFile
    THEN IF flags.world = "document" THEN "resolves" ELSE "rejects"
    ELSE IF flags.endpoint
    THEN IF flags.queries = 0 THEN "throws"
         ELSE IF flags.world = "failure" THEN "rejects"
         ELSE IF flags.world = "no data" THEN "uncaught"
         ELSE "resolves"
    ELSE "rejects"

\* getOutputStream
getOutputStream(flags) == IF flags.output THEN "file" ELSE "stdout"

InitCommand ==
    /\ input \in Flags
    /\ schema \in IF getSchema(input) = "resolves"
                  THEN Schemas(CommandPool, MaxStreamTypes, StreamRoots)
                       \cup BadPayloads
                  ELSE {NoSchema}
    /\ scalarAlias = EmptyAlias
    /\ Fresh
    /\ output = NoOutput

\* action: the three elements of the array given to Promise.all are
\* evaluated in order; an exception of getSchema leaves action before
\* getAlias runs and before any promise chain exists
Action ==
    /\ input.fn = "action"
    /\ proc.phase = "none"
    /\ IF getSchema(input) = "throws"
       THEN /\ proc' = [proc EXCEPT !.phase = "threw",
                                    !.sink = getOutputStream(input)]
            /\ UNCHANGED scalarAlias
       ELSE /\ proc' = [proc EXCEPT !.phase = "pending",
                                    !.sink = getOutputStream(input)]
            /\ scalarAlias' = getAlias(input)
    /\ UNCHANGED <<schema, given, ret, readable, promise, input, output>>

\* the promise of getSchema settles (or its request callback throws), and
\* with it Promise.all
Settle ==
    /\ proc.phase = "pending"
    /\ proc' = [proc EXCEPT !.phase =
                   CASE getSchema(input) = "resolves" -> "fulfilled"
                     [] getSchema(input) = "rejects" -> "rejected"
                     [] OTHER -> "uncaught"]
    /\ UNCHANGED <<schema, scalarAlias, given, ret, readable, promise, input, output>>

\* the first then: the executor calls createReadableSchemaDefinition(schema,
\* alias), registers the listeners and pipes; an exception of the executor
\* rejects the promise
Executor ==
    /\ proc.phase = "fulfilled"
    /\ \E built \in {createSchemaDefinitionQueue(schema, scalarAlias)} :
        /\ schema' = [schema EXCEPT !.types = built.types]
        /\ IF Len(built.error) > 0
           THEN /\ ret' = Thrown("createReadableSchemaDefinition", built.error)
                /\ proc' = [proc EXCEPT !.phase = "rejected"]
                /\ UNCHANGED readable
           ELSE /\ readable' = [readable EXCEPT !["r1"] =
                                   [NoStream EXCEPT !.created = TRUE,
                                                    !.queue = built.queue]]
                /\ proc' = [proc EXCEPT !.phase = "piping"]
                /\ UNCHANGED ret
        /\ scalarAlias' = built.alias
        /\ UNCHANGED <<given, promise, input, output>>

\* pipe makes the stream flow: the machinery calls _read
Pipe == proc.phase = "piping" /\ Read("r1")

\* pipe's 'data' listener: out.write(chunk), chunks in the order pushed
Flow ==
    /\ proc.phase = "piping"
    /\ Len(proc.written) < Len(readable["r1"].pushed)
    /\ proc' = [proc EXCEPT !.written =
                   Append(@, readable["r1"].pushed[Len(@) + 1])]
    /\ UNCHANGED <<schema, scalarAlias, given, ret, readable, promise, input, output>>

\* readable.on('error', reject)
OnError ==
    /\ proc.phase = "piping"
    /\ readable["r1"].delivery = "error event"
    /\ proc' = [proc EXCEPT !.phase = "rejected"]
    /\ UNCHANGED <<schema, scalarAlias, given, ret, readable, promise, input, output>>

\* an exception no handler of the chain sees (thrown by the request callback
\* or left uncaught by read()) ends the process with exit code 1
UncaughtException ==
    /\ \/ proc.phase = "uncaught"
       \/ proc.phase = "piping" /\ readable["r1"].delivery = "uncaught exception"
    /\ proc' = [proc EXCEPT !.phase = "crashed", !.exit = <<1>>]
    /\ UNCHANGED <<schema, scalarAlias, given, ret, readable, promise, input, output>>

\* 'end' is emitted once the end was signalled and every chunk was passed to
\* the 'data' listener: resolve(out); the 'end' listener of pipe ends a
\* destination other than stdout
OnEnd ==
    /\ proc.phase = "piping"
    /\ readable["r1"].ended > 0
    /\ proc.written = readable["r1"].pushed
    /\ proc' = [proc EXCEPT !.phase = "resolved",
                            !.sinkEnded = (proc.sink # "stdout")]
    /\ UNCHANGED <<schema, scalarAlias, given, ret, readable, promise, input, output>>

\* the second then: if (out !== process.stdout) out.end(); process.exit(0)
Then ==
    /\ proc.phase = "resolved"
    /\ proc' = [proc EXCEPT !.phase = "exited",
                            !.sinkEnded = IF proc.sink # "stdout" THEN TRUE ELSE @,
                            !.exit = <<0>>]
    /\ UNCHANGED <<schema, scalarAlias, given, ret, readable, promise, input, output>>

\* the catch: output.error(...); process.exit(1)
Catch ==
    /\ proc.phase = "rejected"
    /\ proc' = [proc EXCEPT !.phase = "exited", !.exit = <<1>>]
    /\ UNCHANGED <<schema, scalarAlias, given, ret, readable, promise, input, output>>

NextCommand ==
    \/ Action
    \/ Settle
    \/ Executor
    \/ Pipe
    \/ Flow
    \/ OnError
    \/ UncaughtException
    \/ OnEnd
    \/ Then
    \/ Catch

SpecCommand == InitCommand /\ [][NextCommand]_vars

(***************************************************************************)
(* SpecPayload: the command and direct calls of the entry points, on a     *)
(* retrieval that obtains a document.  The document has no data, or its    *)
(* payload is undefined, lacks the type list, or is a schema of at most    *)
(* one entity.                                                             *)
(***************************************************************************)
PayloadFlags ==
    {f \in Flags : /\ f.schemaFile \/ (f.endpoint /\ f.queries = 1)
                   /\ f.world # "failure"}

InitPayload ==
    /\ input \in PayloadFlags
    /\ schema \in IF input.world = "no data"
                  THEN {[NoSchema EXCEPT !.shape = "undefined"]}
                  ELSE BadPayloads \cup Schemas({ObjectNoInner}, 1, StreamRoots)
    /\ scalarAlias = EmptyAlias
    /\ Fresh
    /\ output = NoOutput

\* a library caller creates the stream r2; r1 is the stream of the command
NextPayload ==
    \/ NextCommand
    \/ CallSchemaToDefinition
    \/ CreateReadable("r2")
    \/ CreatePromise

SpecPayload == InitPayload /\ [][NextPayload]_vars

(***************************************************************************)
(* Claims about the command (SpecCommand, SpecPayload)                     *)
(***************************************************************************)
\* the phases in which the code of the process has run to its end
Final == {"exited", "crashed", "threw"}

PayloadAbsent == schema.shape # "schema"

\* C27: if the payload is absent or lacks its type list, every mode fails
\* with an error before a unit is rendered or a chunk is emitted: a call that
\* returned has thrown, no stream and no promise exists, nothing is written
\* to the sink, and the command never exits with 0 and ends with exit code 1.
C27_AbsentPayloadFails ==
    PayloadAbsent =>
        /\ ret # NoRet => IsErr(ret.text) /\ ret.queue = <<>>
        /\ \A r \in Streams : readable[r] = NoStream
        /\ promise = NoPromise
        /\ proc.written = <<>>
        /\ proc.exit # <<0>>
        /\ proc.phase \in Final => proc.exit = <<1>>

\* the command has ended on a payload without type list, which the executor
\* rejected, after a direct call failed on it too
C27_Witness ==
    /\ schema.shape = "no types"
    /\ proc.phase = "exited"
    /\ proc.exit = <<1>>
    /\ ret = Thrown("schemaToDefinition", TypeError)

StreamFailed == readable["r1"].error # <<>>

\* C24: a unit that fails to render after chunks were pushed is delivered
\* as the error signal of the stream: the stream emits 'error', no chunk is
\* pushed and no end is signalled afterwards, and the command leaves through
\* its rejection handler with exit code 1, never with 0.
C24_MidStreamFailure ==
    /\ [](StreamFailed => /\ Len(readable["r1"].pushed) > 0
                          /\ readable["r1"].delivery = "error event"
                          /\ proc.exit # <<0>>
                          /\ proc.exit # <<>> => proc.phase = "exited")
    /\ [][StreamFailed => /\ readable'["r1"].pushed = readable["r1"].pushed
                          /\ readable'["r1"].ended = readable["r1"].ended]_vars

\* a failure of the retrieval, of the work-list construction or of the stream
RetrievalFailed == proc.phase # "none" /\ getSchema(input) # "resolves"
QueueFailed == ret.fn = "createReadableSchemaDefinition" /\ IsErr(ret.text)
CommandFailed == RetrievalFailed \/ QueueFailed \/ StreamFailed

=============================================================================
